---------------------------- MODULE Spec2Model ----------------------------
(***************************************************************************)
(* A model of the snake game-service backend.                              *)
(*                                                                         *)
(* The repository holds two implementations of a game session:             *)
(*   - package game   (internal/game/game.go): NewGame, Update,            *)
(*     SetDirection, Reset, checkCollision, generateFood, pointKey;        *)
(*   - package main   (main.go, stored in internal/server/server.go from   *)
(*     line 92 on): newGame, update, handleDirection, getNextPosition,     *)
(*     isCollision, generateFood.                                          *)
(* One session is modelled; impl says which of the two packages built it.  *)
(* Every method of a session runs under the session mutex, so each call is *)
(* one atomic step.  sync.RWMutex is not reentrant: a method that calls    *)
(* Game.generateFood while it holds the mutex never returns, and the mutex *)
(* stays locked.                                                           *)
(***************************************************************************)
EXTENDS Integers, Sequences, FiniteSets

VARIABLES
    impl,      \* "game" (internal/game) or "main" (main.go): fixed at creation
    config,    \* g.config of package game, the constants of main.go: fixed at creation
    state,     \* g.state: [Snake, Food, Score, GameOver, Direction]
    mutex,     \* g.mutex: "unlocked", or "deadlock" once a call blocked on it for ever
    last,      \* history: the last call on the session, [op, arg]: op is "create",
               \* "tick", "direction" or "reset"; arg is the direction asked for,
               \* or what the tick did
    lastMove,  \* history: the direction of the latest tick that moved the snake
    \* The registry of package websocket (Handler) and the goroutines around it.
    hver,      \* which of the two texts of handler.go runs: 1 (lines 1-107), 2 (109-230)
    clients,   \* h.clients: connection -> its game, [state, mutex]
    closes,    \* connection -> how many times the handler called conn.Close()
    hmutex,    \* h.mutex: [writer, waiting, readers]: Lock held, a goroutine waiting
               \* in Lock, the goroutines holding RLock
    run,       \* the goroutine of Handler.Run: [pc, conn, todo]
    conns,     \* connection -> [pc, msg]: Server.handleWebSocket and its read loop
    broken,    \* connections whose client has gone: reads and writes on them fail
    ticks,     \* ticker.C fires so far
    rlast,     \* history: what the last HandleDirection returned, "nil" or "error"
    \* The goroutines of one session of package main (main.go).
    thr,       \* [tick, loop, log, n, gone, stopped]: where the goroutine of Game.start
               \* and the read loop of handleWebSocket are, what the loop logged at
               \* its end, ticker fires so far, client gone, stopChan closed
    \* One call of Game.generateFood of package game.
    gf,        \* "idle", "returned", or "hung" in its loop
    \* The leaderboard of package main: the scores table, l.mutex, the open
    \* transaction and the handlers of /leaderboard.
    lb,
    \* The memory behind the snake slices of a package game session and of the
    \* state GetState returned: [arr, g, snap].
    mem

sessVars == <<impl, config, state, mutex, last, lastMove>>

regVars == <<hver, clients, closes, hmutex, run, conns, broken, ticks, rlast>>

vars == <<sessVars, regVars, thr, gf, lb, mem>>

---------------------------------------------------------------------------
(* Bounds of the model *)

\* Side of the grid: GRID_SIZE in main.go (20 there), config.GridSize in package game.
GridSize == 3

\* Ticks that would grow the snake beyond MaxLen cells are not explored.
MaxLen == 4

\* Connections the registry sees, each opened once.
MaxConns == 2

\* Fires of the registry's ticker that are explored.
MaxRegTicks == 1

\* Fires of the ticker of a package main session that are explored, its
\* goroutines modelled step by step.
MaxMainTicks == 2

\* Rows the leaderboard keeps: MAX_ENTRIES in main.go (10 there).
MaxEntries == 3

\* Requests to POST /leaderboard that are explored.
MaxSubmissions == 4

\* Writes to the cells of a returned state that are explored.
MaxWrites == 1

---------------------------------------------------------------------------
(* Constants of the program *)

\* main.go starts the snake in the middle of the grid: (10, 10) of 20 by 20.
INITIAL_SNAKE_X == GridSize \div 2
INITIAL_SNAKE_Y == GridSize \div 2

\* The constants of main.go as a configuration.
MainConfig ==
    [GridSize |-> GridSize, InitialX |-> INITIAL_SNAKE_X, InitialY |-> INITIAL_SNAKE_Y]

\* The models.GameConfig values a package game session is created with: the grid
\* of GridSize, the snake starting on any cell of it.
GameConfigs ==
    {[GridSize |-> GridSize, InitialX |-> x, InitialY |-> y] :
        x \in 0..(GridSize - 1), y \in 0..(GridSize - 1)}

UP == "UP"
DOWN == "DOWN"
LEFT == "LEFT"
RIGHT == "RIGHT"

Directions == {UP, DOWN, LEFT, RIGHT}

\* Direction strings a client can send that are none of the four.
InvalidDirs == {""}

DirInputs == Directions \cup InvalidDirs

Point(x, y) == [X |-> x, Y |-> y]

Cells == {Point(x, y) : x \in 0..(GridSize - 1), y \in 0..(GridSize - 1)}

---------------------------------------------------------------------------
(* package game: internal/game/game.go *)

\* string(i) of an int: the UTF-8 text of the code point i, U+FFFD when i is none.
Rune(i) ==
    IF i < 0 \/ i > 1114111 \/ (i >= 55296 /\ i <= 57343) THEN 65533 ELSE i

\* The key is the code points of string(p.X) + "," + string(p.Y).
pointKey(p) == <<Rune(p.X), 44, Rune(p.Y)>>

\* The cells rand.Intn(g.config.GridSize) draws on a grid of side n.
CellsOf(n) == {Point(x, y) : x \in 0..(n - 1), y \in 0..(n - 1)}

\* The cells the rejection loop of Game.generateFood can end on, on a grid of
\* side n: none when the snake is on every cell, and then the loop never ends.
Game_generateFoodOn(n, Snake) ==
    LET occupied == {pointKey(Snake[i]) : i \in 1..Len(Snake)}
    IN  {c \in CellsOf(n) : pointKey(c) \notin occupied}

\* The cells the rejection loop of Game.generateFood can end on.
Game_generateFood(Snake) == Game_generateFoodOn(GridSize, Snake)

\* checkCollision with the upper bounds compared by > instead of >=.
checkCollision_OffByOne(p, Snake) ==
    \/ p.X < 0 \/ p.X > GridSize \/ p.Y < 0 \/ p.Y > GridSize
    \/ \E i \in 1..Len(Snake) : p = Snake[i]

\* checkCollision without its tests p.X < 0 and p.Y < 0.
checkCollision_NoLowerBound(p, Snake) ==
    \/ p.X >= GridSize \/ p.Y >= GridSize
    \/ \E i \in 1..Len(Snake) : p = Snake[i]

checkCollision(p, Snake) ==
    \/ p.X < 0 \/ p.X >= GridSize \/ p.Y < 0 \/ p.Y >= GridSize
    \/ \E i \in 1..Len(Snake) : p = Snake[i]

\* The switch of Update deaf to the committed direction: the head always goes
\* the way a new game starts, to the right.
Game_newHead_InitialDirection(head, dir) == Point(head.X + 1, head.Y)

\* The switch of Update: newHead keeps its zero value when no case matches.
Game_newHead(head, dir) ==
    CASE dir = UP    -> Point(head.X, head.Y - 1)
      [] dir = DOWN  -> Point(head.X, head.Y + 1)
      [] dir = LEFT  -> Point(head.X - 1, head.Y)
      [] dir = RIGHT -> Point(head.X + 1, head.Y)
      [] OTHER       -> Point(0, 0)

\* Update reaches g.generateFood() with the mutex held: the call blocks for ever.
Game_UpdateBlocks(s) ==
    /\ ~s.GameOver
    /\ ~checkCollision(Game_newHead(s.Snake[1], s.Direction), s.Snake)
    /\ Game_newHead(s.Snake[1], s.Direction) = s.Food

\* Update without its early return on a terminal session.
Game_Update_NoTerminalCheck(s) ==
    LET newHead == Game_newHead(s.Snake[1], s.Direction)
        moved   == <<newHead>> \o s.Snake
    IN  IF checkCollision(newHead, s.Snake)
        THEN [s EXCEPT !.GameOver = TRUE]
        ELSE IF newHead = s.Food
             THEN [s EXCEPT !.Snake = moved, !.Score = @ + 1]
             ELSE [s EXCEPT !.Snake = SubSeq(moved, 1, Len(moved) - 1)]

\* g.state when Update returns, or when it blocks in g.generateFood().
Game_Update(s) ==
    IF s.GameOver THEN s
    ELSE LET newHead == Game_newHead(s.Snake[1], s.Direction)
             moved   == <<newHead>> \o s.Snake
         IN  IF checkCollision(newHead, s.Snake)
             THEN [s EXCEPT !.GameOver = TRUE]
             ELSE IF newHead = s.Food
                  THEN [s EXCEPT !.Snake = moved, !.Score = @ + 1]
                  ELSE [s EXCEPT !.Snake = SubSeq(moved, 1, Len(moved) - 1)]

\* SetDirection with the LEFT case guarded against LEFT instead of RIGHT.
Game_SetDirection_WrongGuard(s, dir) ==
    CASE dir = UP    -> IF s.Direction # DOWN  THEN [s EXCEPT !.Direction = dir] ELSE s
      [] dir = DOWN  -> IF s.Direction # UP    THEN [s EXCEPT !.Direction = dir] ELSE s
      [] dir = LEFT  -> IF s.Direction # LEFT  THEN [s EXCEPT !.Direction = dir] ELSE s
      [] dir = RIGHT -> IF s.Direction # LEFT  THEN [s EXCEPT !.Direction = dir] ELSE s
      [] OTHER       -> s

Game_SetDirection(s, dir) ==
    CASE dir = UP    -> IF s.Direction # DOWN  THEN [s EXCEPT !.Direction = dir] ELSE s
      [] dir = DOWN  -> IF s.Direction # UP    THEN [s EXCEPT !.Direction = dir] ELSE s
      [] dir = LEFT  -> IF s.Direction # RIGHT THEN [s EXCEPT !.Direction = dir] ELSE s
      [] dir = RIGHT -> IF s.Direction # LEFT  THEN [s EXCEPT !.Direction = dir] ELSE s
      [] OTHER       -> s

\* NewGame with the two coordinates of the initial cell exchanged.
NewGame_SwappedAxes(cfg) ==
    LET Snake == <<Point(cfg.InitialY, cfg.InitialX)>>
    IN  {[Snake |-> Snake, Food |-> f, Score |-> 0, GameOver |-> FALSE,
          Direction |-> RIGHT] : f \in Game_generateFood(Snake)}

\* The states NewGame(cfg) can return: generateFood runs with the mutex free.
NewGame(cfg) ==
    LET Snake == <<Point(cfg.InitialX, cfg.InitialY)>>
    IN  {[Snake |-> Snake, Food |-> f, Score |-> 0, GameOver |-> FALSE,
          Direction |-> RIGHT] : f \in Game_generateFood(Snake)}

\* g.state as Reset assigns it (Food is the zero Point) before it calls
\* g.generateFood() with the mutex held.
Game_Reset(cfg) ==
    [Snake |-> <<Point(cfg.InitialX, cfg.InitialY)>>, Food |-> Point(0, 0),
     Score |-> 0, GameOver |-> FALSE, Direction |-> RIGHT]

---------------------------------------------------------------------------
(* package main: main.go *)

\* A generateFood that draws from 0..GRID_SIZE on both axes.
generateFood_Inclusive == {Point(x, y) : x \in 0..GridSize, y \in 0..GridSize}

\* rand.Intn(GRID_SIZE) on both axes: any cell of the grid.
generateFood == Cells

newGame ==
    {[Snake |-> <<Point(INITIAL_SNAKE_X, INITIAL_SNAKE_Y)>>, Food |-> f, Score |-> 0,
      GameOver |-> FALSE, Direction |-> RIGHT] : f \in generateFood}

\* getNextPosition with the y axis pointing up: UP adds 1, DOWN subtracts 1.
getNextPosition_YAxisUp(dir, current) ==
    CASE dir = UP    -> Point(current.X, current.Y + 1)
      [] dir = DOWN  -> Point(current.X, current.Y - 1)
      [] dir = LEFT  -> Point(current.X - 1, current.Y)
      [] dir = RIGHT -> Point(current.X + 1, current.Y)
      [] OTHER       -> current

getNextPosition(dir, current) ==
    CASE dir = UP    -> Point(current.X, current.Y - 1)
      [] dir = DOWN  -> Point(current.X, current.Y + 1)
      [] dir = LEFT  -> Point(current.X - 1, current.Y)
      [] dir = RIGHT -> Point(current.X + 1, current.Y)
      [] OTHER       -> current

\* isCollision without the loop over the segments of the snake.
isCollision_WallsOnly(pos, Snake) ==
    pos.X < 0 \/ pos.X >= GridSize \/ pos.Y < 0 \/ pos.Y >= GridSize

\* isCollision with its loop stopping before the last segment, the tail.
isCollision_SkipsTail(pos, Snake) ==
    \/ pos.X < 0 \/ pos.X >= GridSize \/ pos.Y < 0 \/ pos.Y >= GridSize
    \/ \E i \in 1..(Len(Snake) - 1) : pos.X = Snake[i].X /\ pos.Y = Snake[i].Y

isCollision(pos, Snake) ==
    \/ pos.X < 0 \/ pos.X >= GridSize \/ pos.Y < 0 \/ pos.Y >= GridSize
    \/ \E i \in 1..Len(Snake) : pos.X = Snake[i].X /\ pos.Y = Snake[i].Y

handleDirection(s, direction) ==
    IF s.GameOver THEN s
    ELSE LET isValidTurn ==
                 CASE direction = UP    -> s.Direction # DOWN
                   [] direction = DOWN  -> s.Direction # UP
                   [] direction = LEFT  -> s.Direction # RIGHT
                   [] direction = RIGHT -> s.Direction # LEFT
                   [] OTHER             -> TRUE
         IN  IF isValidTurn THEN [s EXCEPT !.Direction = direction] ELSE s

\* update with a meal worth two points.
update_DoubleScore(s, food) ==
    IF s.GameOver THEN s
    ELSE LET head    == s.Snake[1]
             newHead == getNextPosition(s.Direction, head)
         IN  IF isCollision(newHead, s.Snake)
             THEN [s EXCEPT !.GameOver = TRUE]
             ELSE IF newHead.X = s.Food.X /\ newHead.Y = s.Food.Y
                  THEN [s EXCEPT !.Score = @ + 2, !.Food = food,
                                 !.Snake = <<newHead>> \o s.Snake]
                  ELSE [s EXCEPT !.Snake =
                            <<newHead>> \o SubSeq(s.Snake, 1, Len(s.Snake) - 1)]

\* update with the reslice dropping the old head instead of the tail.
update_DropsOldHead(s, food) ==
    IF s.GameOver THEN s
    ELSE LET head    == s.Snake[1]
             newHead == getNextPosition(s.Direction, head)
         IN  IF isCollision(newHead, s.Snake)
             THEN [s EXCEPT !.GameOver = TRUE]
             ELSE IF newHead.X = s.Food.X /\ newHead.Y = s.Food.Y
                  THEN [s EXCEPT !.Score = @ + 1, !.Food = food,
                                 !.Snake = <<newHead>> \o s.Snake]
                  ELSE [s EXCEPT !.Snake = <<newHead>> \o Tail(s.Snake)]

\* update with the tail dropped on every tick, the tick that eats included.
update_AlwaysDropsTail(s, food) ==
    IF s.GameOver THEN s
    ELSE LET head    == s.Snake[1]
             newHead == getNextPosition(s.Direction, head)
         IN  IF isCollision(newHead, s.Snake)
             THEN [s EXCEPT !.GameOver = TRUE]
             ELSE IF newHead.X = s.Food.X /\ newHead.Y = s.Food.Y
                  THEN [s EXCEPT !.Score = @ + 1, !.Food = food,
                                 !.Snake = <<newHead>> \o
                                     SubSeq(s.Snake, 1, Len(s.Snake) - 1)]
                  ELSE [s EXCEPT !.Snake =
                            <<newHead>> \o SubSeq(s.Snake, 1, Len(s.Snake) - 1)]

\* g.state when update returns; food is the cell generateFood() draws if it is called.
update(s, food) ==
    IF s.GameOver THEN s
    ELSE LET head    == s.Snake[1]
             newHead == getNextPosition(s.Direction, head)
         IN  IF isCollision(newHead, s.Snake)
             THEN [s EXCEPT !.GameOver = TRUE]
             ELSE IF newHead.X = s.Food.X /\ newHead.Y = s.Food.Y
                  THEN [s EXCEPT !.Score = @ + 1, !.Food = food,
                                 !.Snake = <<newHead>> \o s.Snake]
                  ELSE [s EXCEPT !.Snake =
                            <<newHead>> \o SubSeq(s.Snake, 1, Len(s.Snake) - 1)]

\* The goroutines of a package main session while no such session runs.
NoThreads ==
    [tick |-> "off", loop |-> "off", log |-> "none", n |-> 0,
     gone |-> FALSE, stopped |-> FALSE]

---------------------------------------------------------------------------
(* package websocket: internal/websocket/handler.go, and Server.handleWebSocket of
   internal/server/server.go *)

Conns == 1..MaxConns

NoConn == 0

\* The goroutine of Handler.Run, as a holder of h.mutex beside the read loops.
RunGoroutine == 0

\* A message that json.Unmarshal rejects.
NotJSON == "<not json>"

\* The messages the clients of the registry send: {"direction": d} for two turns
\* d, or no JSON at all.
Msgs == {UP, LEFT, NotJSON}

\* The registry is explored with the random food of a new game on two cells: the
\* one ahead of the snake and the corner.
RegFood == {Point(INITIAL_SNAKE_X + 1, INITIAL_SNAKE_Y), Point(0, 0)}

\* sync.RWMutex: Lock waits for the writer and every reader to leave.
CanLock(m) == ~m.writer /\ m.readers = {}

\* RLock waits for the writer to leave, and for a goroutine that waits in Lock.
CanRLock(m) == ~m.writer /\ ~m.waiting

\* Lock called: the mutex is taken, or the caller starts to wait for the readers.
Lock(m) ==
    IF CanLock(m) THEN [m EXCEPT !.writer = TRUE, !.waiting = FALSE]
    ELSE [m EXCEPT !.waiting = TRUE]

\* h.clients[conn] = game.NewGame(h.config)
handleRegister(cl, conn, g) ==
    [c \in (DOMAIN cl) \cup {conn} |-> IF c = conn THEN g ELSE cl[c]]

\* handleUnregister without its `if _, ok := h.clients[conn]; ok`.
handleUnregister_NoPresenceCheck(reg, conn) ==
    [clients |-> [c \in (DOMAIN reg.clients) \ {conn} |-> reg.clients[c]],
     closes  |-> [reg.closes EXCEPT ![conn] = @ + 1]]

\* handleUnregister on reg = [clients, closes]: delete and Close only when present.
handleUnregister(reg, conn) ==
    IF conn \in DOMAIN reg.clients
    THEN [clients |-> [c \in (DOMAIN reg.clients) \ {conn} |-> reg.clients[c]],
          closes  |-> [reg.closes EXCEPT ![conn] = @ + 1]]
    ELSE reg

\* One turn of the range of updateGames on connection c: [clients, pc].
\* game.Update() blocks for ever when it eats (pc "Update_blocked").  A push that
\* fails sends on h.unregister, the channel only the goroutine running this loop
\* receives from: the send blocks for ever (pc "send_unregister").
updateGames_visit(cl, c, fails) ==
    [clients |-> [cl EXCEPT ![c].state = Game_Update(@),
                            ![c].mutex = IF Game_UpdateBlocks(cl[c].state)
                                         THEN "deadlock" ELSE @],
     pc |-> IF Game_UpdateBlocks(cl[c].state) THEN "Update_blocked"
            ELSE IF fails THEN "send_unregister"
            ELSE "range"]

\* updateGames run alone on the map cl, the range visiting the connections in
\* the order of the sequence: the map it leaves.
RECURSIVE updateGames(_, _, _)
updateGames(cl, order, failing) ==
    IF order = <<>> THEN cl
    ELSE LET r == updateGames_visit(cl, Head(order), Head(order) \in failing)
         IN  IF r.pc = "range" THEN updateGames(r.clients, Tail(order), failing)
             ELSE r.clients

\* HandleDirection of lines 91-107 past its json.Unmarshal: [clients, err, blocked].
\* It returns nil when the connection has no game.
HandleDirection_v1(cl, conn, msg) ==
    IF conn \in DOMAIN cl
    THEN IF cl[conn].mutex # "unlocked"
         THEN [clients |-> cl, err |-> FALSE, blocked |-> TRUE]
         ELSE [clients |-> [cl EXCEPT ![conn].state = Game_SetDirection(@, msg)],
               err |-> FALSE, blocked |-> FALSE]
    ELSE [clients |-> cl, err |-> FALSE, blocked |-> FALSE]

\* HandleDirection of lines 209-230: it looks the connection up first and returns
\* an error when it has no game, then parses.
HandleDirection_v2(cl, conn, msg) ==
    IF conn \notin DOMAIN cl THEN [clients |-> cl, err |-> TRUE, blocked |-> FALSE]
    ELSE IF msg = NotJSON THEN [clients |-> cl, err |-> TRUE, blocked |-> FALSE]
    ELSE IF cl[conn].mutex # "unlocked"
         THEN [clients |-> cl, err |-> FALSE, blocked |-> TRUE]
         ELSE [clients |-> [cl EXCEPT ![conn].state = Game_SetDirection(@, msg)],
               err |-> FALSE, blocked |-> FALSE]

HandleDirection(v, cl, conn, msg) ==
    IF v = 1 THEN HandleDirection_v1(cl, conn, msg) ELSE HandleDirection_v2(cl, conn, msg)

\* The registry variables while no registry runs.
RegIdle ==
    /\ hver = 1
    /\ clients = <<>>
    /\ closes = [c \in Conns |-> 0]
    /\ hmutex = [writer |-> FALSE, waiting |-> FALSE, readers |-> {}]
    /\ run = [pc |-> "off", conn |-> NoConn, todo |-> {}]
    /\ conns = [c \in Conns |-> "idle"]
    /\ broken = {}
    /\ ticks = 0
    /\ rlast = "none"

---------------------------------------------------------------------------
(* The leaderboard of package main (main.go) *)

\* The handler goroutines of /leaderboard requests that run at the same time.
Handlers == {"h1", "h2"}

\* submission.PlayerName and submission.Score as the JSON body of a POST gives them.
PlayerNames == {"", "ann"}

ScoreInputs == {0 - 1, 1, 2}

Min(a, b) == IF a < b THEN a ELSE b

\* One row of the table scores: id INTEGER PRIMARY KEY AUTOINCREMENT,
\* player_name TEXT NOT NULL, score INTEGER NOT NULL, date DATETIME.
Row(id, playerName, score, date) ==
    [id |-> id, player_name |-> playerName, score |-> score, date |-> date]

\* No transaction is open.
NoTx == [open |-> FALSE, rows |-> {}, seq |-> 0]

NoRequest == [pc |-> "idle", playerName |-> "", score |-> 0]

\* The leaderboard after InitLeaderboard on a new database file: an empty table,
\* l.mutex free, no request being served.
EmptyBoard ==
    [rows |-> {}, seq |-> 0, mutex |-> "unlocked", tx |-> NoTx,
     req |-> [h \in Handlers |-> NoRequest], n |-> 0,
     discarded |-> {}, got |-> <<>>, last |-> "none"]
\* rows, seq: the table and its AUTOINCREMENT sequence; tx: what the open
\* transaction holds; req: where each handler is; n: POST requests so far;
\* discarded: scores that committed trims deleted; last, got: the status of the
\* last response and the list it carried.

\* The leaderboard where no specification of it runs.
NoBoard == EmptyBoard

\* SELECT id FROM scores ORDER BY score DESC LIMIT n: the sets of rows the
\* database may select, rows of equal score in any order.
TopSets(rows, n) ==
    {K \in SUBSET rows :
        /\ Cardinality(K) = Min(n, Cardinality(rows))
        /\ \A k \in K : \A r \in rows \ K : k.score >= r.score}

\* INSERT INTO scores (player_name, score, date) VALUES (?, ?, ?) in a
\* transaction t: the row takes the next id of the AUTOINCREMENT sequence.
AddScore_insert(t, playerName, score, date) ==
    [t EXCEPT !.rows = @ \cup {Row(t.seq + 1, playerName, score, date)},
              !.seq = @ + 1]

\* A trim that keeps the LIMIT lowest scores.
AddScore_trim_KeepsLowest(t, limit) ==
    {[t EXCEPT !.rows = K] :
        K \in {L \in SUBSET t.rows :
                  /\ Cardinality(L) = Min(limit, Cardinality(t.rows))
                  /\ \A k \in L : \A r \in t.rows \ L : k.score <= r.score}}

\* DELETE FROM scores WHERE id NOT IN (SELECT id FROM scores ORDER BY score DESC
\* LIMIT ?) in a transaction t: what the transaction may hold afterwards.
AddScore_trim(t, limit) ==
    {[t EXCEPT !.rows = K] : K \in TopSets(t.rows, limit)}

\* The entry GetScores appends for a row: the date column parsed with the layout
\* "2006-01-02 15:04:05", or time.Now() where the text does not parse.
ScoreEntry(r, parses, now) ==
    [PlayerName |-> r.player_name, Score |-> r.score,
     Date |-> IF parses THEN r.date ELSE now]

\* The lists of the rows in K, each once, that satisfy ORDER BY score DESC.
Descending(K) ==
    {f \in [1..Cardinality(K) -> K] :
        /\ \A i, j \in DOMAIN f : i # j => f[i] # f[j]
        /\ \A i, j \in DOMAIN f : i < j => f[i].score >= f[j].score}

\* l.GetScores(): SELECT player_name, score, date FROM scores ORDER BY score DESC
\* LIMIT ?, one ScoreEntry for each row.
GetScores(rows, limit, parses, now) ==
    {[i \in DOMAIN f |-> ScoreEntry(f[i], parses, now)] :
        f \in UNION {Descending(K) : K \in TopSets(rows, limit)}}

---------------------------------------------------------------------------
(* The memory behind the snake slices of package game *)

\* Names of the backing arrays that can be live at once: the one of the
\* session's slice, the one of a returned state, and the one append allocates.
ArrayIds == {"a1", "a2", "a3"}

\* A slice header: the backing array and the length.
Slice(a, n) == [arr |-> a, len |-> n]

\* The cells a slice header denotes in the memory arr.
View(arr, sl) == SubSeq(arr[sl.arr], 1, sl.len)

\* The memory where no specification of it runs.
NoMem == [arr |-> [a \in ArrayIds |-> <<>>], g |-> Slice("a1", 0),
          snap |-> [taken |-> FALSE], writes |-> 0]

---------------------------------------------------------------------------
(* The session as a state machine *)

\* What a tick did, from the state before it and the state after it.
Outcome(s, t) ==
    IF s.GameOver THEN "terminal"
    ELSE IF t.GameOver THEN "collision"
    ELSE IF t.Score # s.Score THEN "food"
    ELSE "move"

Moved(s, t) == t.Snake # s.Snake

Init ==
    /\ impl \in {"game", "main"}
    /\ config \in (IF impl = "game" THEN GameConfigs ELSE {MainConfig})
    /\ state \in (IF impl = "game" THEN NewGame(config) ELSE newGame)
    /\ mutex = "unlocked"
    /\ last = [op |-> "create", arg |-> ""]
    /\ lastMove = "NONE"
    /\ RegIdle
    /\ thr = NoThreads
    /\ gf = "idle"
    /\ lb = NoBoard
    /\ mem = NoMem

\* One tick of a package game session: Handler.updateGames calls game.Update().
Update ==
    /\ impl = "game"
    /\ mutex = "unlocked"
    /\ Len(Game_Update(state).Snake) <= MaxLen
    /\ state' = Game_Update(state)
    /\ mutex' = IF Game_UpdateBlocks(state) THEN "deadlock" ELSE "unlocked"
    /\ last' = [op |-> "tick", arg |-> Outcome(state, state')]
    /\ lastMove' = IF Moved(state, state') THEN state.Direction ELSE lastMove
    /\ UNCHANGED <<impl, config, regVars, lb, mem, thr, gf>>

\* One tick of a package main session: the goroutine of Game.start calls g.update().
\* Ticks that would grow the snake beyond MaxLen cells are left out.
main_update ==
    /\ impl = "main"
    /\ mutex = "unlocked"
    /\ \E food \in generateFood :
          /\ Len(update(state, food).Snake) <= MaxLen
          /\ state' = update(state, food)
    /\ last' = [op |-> "tick", arg |-> Outcome(state, state')]
    /\ lastMove' = IF Moved(state, state') THEN state.Direction ELSE lastMove
    /\ UNCHANGED <<impl, config, mutex, regVars, lb, mem, thr, gf>>

\* A direction message of the client reaches a package game session:
\* Handler.HandleDirection calls game.SetDirection(dir).
SetDirection(dir) ==
    /\ impl = "game"
    /\ mutex = "unlocked"
    /\ state' = Game_SetDirection(state, dir)
    /\ last' = [op |-> "direction", arg |-> dir]
    /\ UNCHANGED <<impl, config, mutex, lastMove, regVars, lb, mem, thr, gf>>

\* A direction message of the client reaches a package main session: the read loop
\* of handleWebSocket calls game.handleDirection(msg.Direction).
main_handleDirection(dir) ==
    /\ impl = "main"
    /\ mutex = "unlocked"
    /\ state' = handleDirection(state, dir)
    /\ last' = [op |-> "direction", arg |-> dir]
    /\ UNCHANGED <<impl, config, mutex, lastMove, regVars, lb, mem, thr, gf>>

\* Game.Reset of package game: it assigns the state, then blocks in g.generateFood().
Reset ==
    /\ impl = "game"
    /\ mutex = "unlocked"
    /\ state' = Game_Reset(config)
    /\ mutex' = "deadlock"
    /\ last' = [op |-> "reset", arg |-> ""]
    /\ lastMove' = "NONE"
    /\ UNCHANGED <<impl, config, regVars, lb, mem, thr, gf>>

Next ==
    \/ Update
    \/ main_update
    \/ \E dir \in DirInputs : SetDirection(dir)
    \/ \E dir \in DirInputs : main_handleDirection(dir)
    \/ Reset

Spec == Init /\ [][Next]_vars

---------------------------------------------------------------------------
(* The registry as a state machine *)

\* conn.WriteJSON and conn.ReadMessage fail once the client has gone or the
\* connection was closed.
ConnFails(c) == c \in broken \/ closes[c] > 0

\* NewServer and Start: an empty registry, Run waiting in its select.
RegInit ==
    /\ impl = "game"
    /\ config = MainConfig
    /\ state = "none"
    /\ mutex = "unlocked"
    /\ last = [op |-> "none", arg |-> ""]
    /\ lastMove = "NONE"
    /\ hver \in {1, 2}
    /\ clients = <<>>
    /\ closes = [c \in Conns |-> 0]
    /\ hmutex = [writer |-> FALSE, waiting |-> FALSE, readers |-> {}]
    /\ run = [pc |-> "select", conn |-> NoConn, todo |-> {}]
    /\ conns = [c \in Conns |-> "idle"]
    /\ broken = {}
    /\ ticks = 0
    /\ rlast = "none"
    /\ thr = NoThreads
    /\ gf = "idle"
    /\ lb = NoBoard
    /\ mem = NoMem

\* Server.handleWebSocket: the upgrade succeeded, the goroutine sends on Register.
Connect(c) ==
    /\ conns[c] = "idle"
    /\ conns' = [conns EXCEPT ![c] = "send_register"]
    /\ UNCHANGED <<sessVars, lb, mem, thr, gf, hver, clients, closes, hmutex, run, broken, ticks, rlast>>

\* Run: case client := <-h.register.  The send returns and the read loop starts.
Run_register(c) ==
    /\ run.pc = "select"
    /\ conns[c] = "send_register"
    /\ run' = [run EXCEPT !.pc = "handleRegister", !.conn = c]
    /\ conns' = [conns EXCEPT ![c] = "read"]
    /\ UNCHANGED <<sessVars, lb, mem, thr, gf, hver, clients, closes, hmutex, broken, ticks, rlast>>

\* handleRegister taking h.mutex.RLock() where it takes Lock().
handleRegister_Lock_AsReader ==
    /\ run.pc = "handleRegister"
    /\ CanRLock(hmutex)
    /\ hmutex' = [hmutex EXCEPT !.readers = @ \cup {RunGoroutine}]
    /\ run' = [run EXCEPT !.pc = "handleRegister_locked"]
    /\ UNCHANGED <<sessVars, lb, mem, thr, gf, hver, clients, closes, conns, broken, ticks, rlast>>

\* handleRegister: h.mutex.Lock() is called and returns, or is called and waits, or
\* returns after its wait.
handleRegister_Lock ==
    /\ run.pc = "handleRegister"
    /\ CanLock(hmutex) \/ ~hmutex.waiting
    /\ hmutex' = Lock(hmutex)
    /\ run' = IF CanLock(hmutex) THEN [run EXCEPT !.pc = "handleRegister_locked"] ELSE run
    /\ UNCHANGED <<sessVars, lb, mem, thr, gf, hver, clients, closes, conns, broken, ticks, rlast>>

\* handleRegister: the new game goes into the map; the deferred Unlock.
handleRegister_body ==
    /\ run.pc = "handleRegister_locked"
    /\ \E g \in NewGame(config) :
          /\ g.Food \in RegFood
          /\ clients' = handleRegister(clients, run.conn,
                                       [state |-> g, mutex |-> "unlocked"])
    /\ hmutex' = [hmutex EXCEPT !.writer = FALSE]
    /\ run' = [run EXCEPT !.pc = "select", !.conn = NoConn]
    /\ UNCHANGED <<sessVars, lb, mem, thr, gf, hver, closes, conns, broken, ticks, rlast>>

\* Run: case client := <-h.unregister, sent by the read loop that ended.
Run_unregister(c) ==
    /\ run.pc = "select"
    /\ conns[c] = "send_unregister"
    /\ run' = [run EXCEPT !.pc = "handleUnregister", !.conn = c]
    /\ conns' = [conns EXCEPT ![c] = "done"]
    /\ UNCHANGED <<sessVars, lb, mem, thr, gf, hver, clients, closes, hmutex, broken, ticks, rlast>>

\* handleUnregister: h.mutex.Lock() is called and returns, or is called and waits, or
\* returns after its wait.
handleUnregister_Lock ==
    /\ run.pc = "handleUnregister"
    /\ CanLock(hmutex) \/ ~hmutex.waiting
    /\ hmutex' = Lock(hmutex)
    /\ run' = IF CanLock(hmutex) THEN [run EXCEPT !.pc = "handleUnregister_locked"] ELSE run
    /\ UNCHANGED <<sessVars, lb, mem, thr, gf, hver, clients, closes, conns, broken, ticks, rlast>>

\* handleUnregister: delete and Close if present; the deferred Unlock.
handleUnregister_body ==
    /\ run.pc = "handleUnregister_locked"
    /\ LET r == handleUnregister([clients |-> clients, closes |-> closes], run.conn)
       IN  clients' = r.clients /\ closes' = r.closes
    /\ hmutex' = [hmutex EXCEPT !.writer = FALSE]
    /\ run' = [run EXCEPT !.pc = "select", !.conn = NoConn]
    /\ UNCHANGED <<sessVars, lb, mem, thr, gf, hver, conns, broken, ticks, rlast>>

\* Run: case <-ticker.C
Run_tick ==
    /\ run.pc = "select"
    /\ ticks < MaxRegTicks
    /\ ticks' = ticks + 1
    /\ run' = [run EXCEPT !.pc = "updateGames"]
    /\ UNCHANGED <<sessVars, lb, mem, thr, gf, hver, clients, closes, hmutex, conns, broken, rlast>>

\* updateGames: h.mutex.RLock(), then the range over h.clients begins.
updateGames_RLock ==
    /\ run.pc = "updateGames"
    /\ CanRLock(hmutex)
    /\ hmutex' = [hmutex EXCEPT !.readers = @ \cup {RunGoroutine}]
    /\ run' = [run EXCEPT !.pc = "range", !.todo = DOMAIN clients]
    /\ UNCHANGED <<sessVars, lb, mem, thr, gf, hver, clients, closes, conns, broken, ticks, rlast>>

\* updateGames: one turn of the range, on any connection not visited yet (the
\* order of a Go map range is not fixed).  The goroutine stays where the turn
\* blocks, the connection of that turn still to do.
updateGames_iter(c) ==
    /\ run.pc = "range"
    /\ c \in run.todo
    /\ LET r == updateGames_visit(clients, c, ConnFails(c))
       IN  /\ clients' = r.clients
           /\ run' = IF r.pc = "range"
                     THEN [run EXCEPT !.todo = @ \ {c}]
                     ELSE [run EXCEPT !.pc = r.pc, !.conn = c]
    /\ UNCHANGED <<sessVars, lb, mem, thr, gf, hver, closes, hmutex, conns, broken, ticks, rlast>>

\* updateGames: the range is over; the deferred RUnlock.
updateGames_RUnlock ==
    /\ run.pc = "range"
    /\ run.todo = {}
    /\ hmutex' = [hmutex EXCEPT !.readers = @ \ {RunGoroutine}]
    /\ run' = [run EXCEPT !.pc = "select"]
    /\ UNCHANGED <<sessVars, lb, mem, thr, gf, hver, clients, closes, conns, broken, ticks, rlast>>

\* The read loop: conn.ReadMessage() returns a message and HandleDirection is
\* called.  Text 1 parses first and returns the error of json.Unmarshal; else
\* the call takes h.mutex.RLock().
ReadMessage(c, parses) ==
    /\ conns[c] = "read"
    /\ ~ConnFails(c)
    /\ IF hver = 1 /\ ~parses
       THEN /\ rlast' = "error"
            /\ UNCHANGED <<hmutex, conns>>
       ELSE /\ CanRLock(hmutex)
            /\ hmutex' = [hmutex EXCEPT !.readers = @ \cup {c}]
            /\ conns' = [conns EXCEPT ![c] = "HandleDirection"]
            /\ rlast' = rlast
    /\ UNCHANGED <<sessVars, lb, mem, thr, gf, hver, clients, closes, run, broken, ticks>>

\* HandleDirection under the read lock, on the message read: the lookup,
\* game.SetDirection, the deferred RUnlock.  SetDirection blocks for ever, the
\* read lock held, on a game whose mutex is stuck.
HandleDirection_body(c, msg) ==
    /\ conns[c] = "HandleDirection"
    /\ hver = 1 => msg # NotJSON
    /\ LET r == HandleDirection(hver, clients, c, msg)
       IN  IF r.blocked
           THEN /\ conns' = [conns EXCEPT ![c] = "SetDirection_blocked"]
                /\ UNCHANGED <<clients, hmutex, rlast>>
           ELSE /\ clients' = r.clients
                /\ hmutex' = [hmutex EXCEPT !.readers = @ \ {c}]
                /\ conns' = [conns EXCEPT ![c] = "read"]
                /\ rlast' = IF r.err THEN "error" ELSE "nil"
    /\ UNCHANGED <<sessVars, lb, mem, thr, gf, hver, closes, run, broken, ticks>>

\* The client goes away: from now on reads and writes on the connection fail.
ClientGone(c) ==
    /\ conns[c] \in {"read", "HandleDirection"}
    /\ c \notin broken
    /\ broken' = broken \cup {c}
    /\ UNCHANGED <<sessVars, lb, mem, thr, gf, hver, clients, closes, hmutex, run, conns, ticks, rlast>>

\* The read loop: conn.ReadMessage() fails, the loop breaks and the deferred
\* function sends on Unregister.
ReadError(c) ==
    /\ conns[c] = "read"
    /\ ConnFails(c)
    /\ conns' = [conns EXCEPT ![c] = "send_unregister"]
    /\ UNCHANGED <<sessVars, lb, mem, thr, gf, hver, clients, closes, hmutex, run, broken, ticks, rlast>>

\* The steps of the goroutine of Handler.Run.
RunNext ==
    \/ \E c \in Conns : Run_register(c)
    \/ handleRegister_Lock
    \/ handleRegister_body
    \/ \E c \in Conns : Run_unregister(c)
    \/ handleUnregister_Lock
    \/ handleUnregister_body
    \/ Run_tick
    \/ updateGames_RLock
    \/ \E c \in Conns : updateGames_iter(c)
    \/ updateGames_RUnlock

\* The steps of the goroutines of connection c.
ConnNext(c) ==
    \/ Connect(c)
    \/ \E parses \in BOOLEAN : ReadMessage(c, parses)
    \/ \E msg \in Msgs : HandleDirection_body(c, msg)
    \/ ClientGone(c)
    \/ ReadError(c)

RegNext == RunNext \/ \E c \in Conns : ConnNext(c)

SpecReg == RegInit /\ [][RegNext]_vars

\* The Go scheduler runs every goroutine that can take a step.
FairSpecReg == SpecReg /\ WF_vars(RunNext) /\ \A c \in Conns : WF_vars(ConnNext(c))

\* The registry later in its life: every connection registered, one or two
\* ticks ago, its read loop waiting, no direction sent so far.  A game one tick
\* old has moved a cell; two ticks old it has run into the wall.
SettledGames ==
    LET fresh  == {g \in NewGame(MainConfig) : g.Food \in RegFood /\ ~Game_UpdateBlocks(g)}
        after1 == {Game_Update(g) : g \in fresh}
        after2 == {Game_Update(g) : g \in {h \in after1 : ~Game_UpdateBlocks(h)}}
    IN  after1 \cup after2

SettledInit ==
    /\ impl = "game"
    /\ config = MainConfig
    /\ state = "none"
    /\ mutex = "unlocked"
    /\ last = [op |-> "none", arg |-> ""]
    /\ lastMove = "NONE"
    /\ hver \in {1, 2}
    /\ clients \in [Conns -> {[state |-> g, mutex |-> "unlocked"] : g \in SettledGames}]
    /\ closes = [c \in Conns |-> 0]
    /\ hmutex = [writer |-> FALSE, waiting |-> FALSE, readers |-> {}]
    /\ run = [pc |-> "select", conn |-> NoConn, todo |-> {}]
    /\ conns = [c \in Conns |-> "read"]
    /\ broken = {}
    /\ ticks = 0
    /\ rlast = "none"
    /\ thr = NoThreads
    /\ gf = "idle"
    /\ lb = NoBoard
    /\ mem = NoMem

\* The steps of the registry once no connection is left to register.
SettledNext ==
    \/ \E c \in Conns : Run_unregister(c)
    \/ handleUnregister_Lock
    \/ handleUnregister_body
    \/ Run_tick
    \/ updateGames_RLock
    \/ \E c \in Conns : updateGames_iter(c)
    \/ updateGames_RUnlock
    \/ \E c \in Conns, parses \in BOOLEAN : ReadMessage(c, parses)
    \/ \E c \in Conns, msg \in Msgs : HandleDirection_body(c, msg)
    \/ \E c \in Conns : ClientGone(c)
    \/ \E c \in Conns : ReadError(c)

SpecSettled == SettledInit /\ [][SettledNext]_vars

---------------------------------------------------------------------------
(* A session of package main, goroutine by goroutine: handleWebSocket and
   Game.start of main.go (internal/server/server.go, lines 92-726) *)

\* handleWebSocket: newGame(conn) has returned; the initial state is to be sent.
MainInit ==
    /\ impl = "main"
    /\ config = MainConfig
    /\ state \in newGame
    /\ mutex = "unlocked"
    /\ last = [op |-> "create", arg |-> ""]
    /\ lastMove = "NONE"
    /\ RegIdle
    /\ thr = [NoThreads EXCEPT !.loop = "send_initial"]
    /\ gf = "idle"
    /\ lb = NoBoard
    /\ mem = NoMem

\* handleWebSocket: conn.WriteJSON(game.getState()), then game.start() and the
\* read loop; the handler returns if the write fails.
Loop_start ==
    /\ thr.loop = "send_initial"
    /\ thr' = IF thr.gone THEN [thr EXCEPT !.loop = "stop"]
              ELSE [thr EXCEPT !.loop = "ReadJSON", !.tick = "select"]
    /\ UNCHANGED <<sessVars, regVars, lb, mem, gf>>

\* The goroutine of Game.start: case <-g.ticker.C, g.update() takes g.mutex.Lock().
Tick_fire ==
    /\ thr.tick = "select"
    /\ ~thr.stopped
    /\ thr.n < MaxMainTicks
    /\ mutex = "unlocked"
    /\ mutex' = "tick"
    /\ thr' = [thr EXCEPT !.tick = "update", !.n = @ + 1]
    /\ UNCHANGED <<impl, config, state, last, lastMove, regVars, lb, mem, gf>>

\* g.update() under its Lock, and the deferred Unlock.
Tick_update ==
    /\ thr.tick = "update"
    /\ \E food \in generateFood :
          /\ Len(update(state, food).Snake) <= MaxLen
          /\ state' = update(state, food)
    /\ mutex' = "unlocked"
    /\ thr' = [thr EXCEPT !.tick = "push"]
    /\ last' = [op |-> "tick", arg |-> Outcome(state, state')]
    /\ lastMove' = IF Moved(state, state') THEN state.Direction ELSE lastMove
    /\ UNCHANGED <<impl, config, regVars, lb, mem, gf>>

\* g.conn.WriteJSON(g.getState()): getState under RLock; the goroutine returns
\* when the write fails.
Tick_push ==
    /\ thr.tick = "push"
    /\ mutex = "unlocked"
    /\ thr' = [thr EXCEPT !.tick = IF thr.gone \/ thr.loop = "done"
                                   THEN "done" ELSE "select"]
    /\ UNCHANGED <<sessVars, regVars, lb, mem, gf>>

\* The goroutine of Game.start: case <-g.stopChan.
Tick_stop ==
    /\ thr.tick = "select"
    /\ thr.stopped
    /\ thr' = [thr EXCEPT !.tick = "done"]
    /\ UNCHANGED <<sessVars, regVars, lb, mem, gf>>

\* The read loop: conn.ReadJSON(&msg) returns a message and
\* game.handleDirection takes g.mutex.Lock().
Loop_ReadJSON ==
    /\ thr.loop = "ReadJSON"
    /\ ~thr.gone
    /\ mutex = "unlocked"
    /\ mutex' = "loop"
    /\ thr' = [thr EXCEPT !.loop = "handleDirection"]
    /\ UNCHANGED <<impl, config, state, last, lastMove, regVars, lb, mem, gf>>

\* game.handleDirection(msg.Direction) under its Lock, and the deferred Unlock.
Loop_handleDirection(dir) ==
    /\ thr.loop = "handleDirection"
    /\ state' = handleDirection(state, dir)
    /\ mutex' = "unlocked"
    /\ thr' = [thr EXCEPT !.loop = "ReadJSON"]
    /\ last' = [op |-> "direction", arg |-> dir]
    /\ UNCHANGED <<impl, config, lastMove, regVars, lb, mem, gf>>

\* The client goes away: reads and writes on the connection fail from now on.
MainClientGone ==
    /\ ~thr.gone
    /\ thr.loop \in {"send_initial", "ReadJSON", "handleDirection"}
    /\ thr' = [thr EXCEPT !.gone = TRUE]
    /\ UNCHANGED <<sessVars, regVars, lb, mem, gf>>

\* The read loop: conn.ReadJSON(&msg) fails (the client has gone, or the message
\* is no JSON object); the error branch is entered.
Loop_ReadFail ==
    /\ thr.loop = "ReadJSON"
    /\ thr' = [thr EXCEPT !.loop = "read_GameOver"]
    /\ UNCHANGED <<sessVars, regVars, lb, mem, gf>>

\* `if game.state.GameOver`: the field is read without g.mutex.  Read while the
\* other goroutine is inside g.update(), it is the value before or after.
Loop_readGameOver ==
    /\ thr.loop = "read_GameOver"
    /\ \E seen \in {state.GameOver} \cup
                   (IF thr.tick = "update"
                    THEN {update(state, food).GameOver : food \in generateFood}
                    ELSE {}) :
          thr' = IF seen THEN [thr EXCEPT !.loop = "read_Score"]
                 ELSE [thr EXCEPT !.loop = "stop", !.log = "error"]
    /\ UNCHANGED <<sessVars, regVars, lb, mem, gf>>

\* log.Printf(... game.state.Score): the field is read without g.mutex; break.
Loop_readScore ==
    /\ thr.loop = "read_Score"
    /\ thr' = [thr EXCEPT !.loop = "stop", !.log = "ended"]
    /\ UNCHANGED <<sessVars, regVars, lb, mem, gf>>

\* The deferred game.stop() (ticker.Stop, close(stopChan)) and conn.Close().
Loop_stop ==
    /\ thr.loop = "stop"
    /\ thr' = [thr EXCEPT !.loop = "done", !.stopped = TRUE]
    /\ UNCHANGED <<sessVars, regVars, lb, mem, gf>>

MainNext ==
    \/ Loop_start
    \/ Tick_fire
    \/ Tick_update
    \/ Tick_push
    \/ Tick_stop
    \/ Loop_ReadJSON
    \/ \E dir \in DirInputs : Loop_handleDirection(dir)
    \/ MainClientGone
    \/ Loop_ReadFail
    \/ Loop_readGameOver
    \/ Loop_readScore
    \/ Loop_stop

SpecMain == MainInit /\ [][MainNext]_vars

---------------------------------------------------------------------------
(* Game.generateFood of package game, called on the snakes of grids of every
   side up to GridSize *)

\* NewGame before its call of game.generateFood(): the state literal, Food still
\* the zero Point.
FoodInit ==
    /\ impl = "game"
    /\ config \in {[GridSize |-> n, InitialX |-> x, InitialY |-> y] :
                      n \in 1..GridSize, x \in 0..(GridSize - 1), y \in 0..(GridSize - 1)}
    /\ config.InitialX < config.GridSize
    /\ config.InitialY < config.GridSize
    /\ state = [Snake |-> <<Point(config.InitialX, config.InitialY)>>,
                Food |-> Point(0, 0), Direction |-> RIGHT, Score |-> 0,
                GameOver |-> FALSE]
    /\ mutex = "unlocked"
    /\ last = [op |-> "create", arg |-> ""]
    /\ lastMove = "NONE"
    /\ RegIdle
    /\ thr = NoThreads
    /\ gf = "idle"
    /\ lb = NoBoard
    /\ mem = NoMem

\* The snake of a longer game: a free cell of the grid next to the head is
\* prepended, as the growth of Update does.
Food_Grow(dir) ==
    /\ gf = "idle"
    /\ Len(state.Snake) < MaxLen
    /\ LET newHead == Game_newHead(state.Snake[1], dir)
       IN  /\ newHead \in CellsOf(config.GridSize)
           /\ \A i \in 1..Len(state.Snake) : state.Snake[i] # newHead
           /\ state' = [state EXCEPT !.Snake = <<newHead>> \o @, !.Score = @ + 1,
                                     !.Direction = dir]
    /\ UNCHANGED <<impl, config, mutex, last, lastMove, regVars, lb, mem, thr, gf>>

\* g.generateFood(): Lock, then the loop draws cells until one is off the snake;
\* with no such cell it draws for ever, the mutex held.
Food_generateFood ==
    /\ gf = "idle"
    /\ IF Game_generateFoodOn(config.GridSize, state.Snake) = {}
       THEN /\ gf' = "hung"
            /\ mutex' = "locked"
            /\ state' = state
       ELSE /\ gf' = "returned"
            /\ mutex' = "unlocked"
            /\ \E food \in Game_generateFoodOn(config.GridSize, state.Snake) :
                  state' = [state EXCEPT !.Food = food]
    /\ UNCHANGED <<impl, config, last, lastMove, regVars, lb, mem, thr>>

FoodNext ==
    \/ \E dir \in Directions : Food_Grow(dir)
    \/ Food_generateFood

SpecFood == FoodInit /\ [][FoodNext]_vars

---------------------------------------------------------------------------
(* The leaderboard as a state machine: the handlers of POST and GET /leaderboard
   of main, Leaderboard.AddScore statement by statement, Leaderboard.GetScores *)

\* The server after InitLeaderboard, no websocket session open.
ScoresInit ==
    /\ impl = "main"
    /\ config = MainConfig
    /\ state = CHOOSE s \in newGame : TRUE
    /\ mutex = "unlocked"
    /\ last = [op |-> "create", arg |-> ""]
    /\ lastMove = "NONE"
    /\ RegIdle
    /\ thr = NoThreads
    /\ gf = "idle"
    /\ lb = EmptyBoard
    /\ mem = NoMem

\* AddScore returns err to the POST handler: the deferred tx.Rollback() drops the
\* transaction, the deferred l.mutex.Unlock() frees the mutex, the handler
\* answers 500.
AddScore_return_err(h) ==
    [lb EXCEPT !.tx = NoTx, !.mutex = "unlocked", !.req[h] = NoRequest,
               !.got = <<>>, !.last = "500"]

\* The POST handler up to the call of AddScore: a body that does not decode and
\* an empty player name are answered 400.
Post(h, playerName, score, decodes) ==
    /\ lb.req[h].pc = "idle"
    /\ lb.n < MaxSubmissions
    /\ lb' = IF ~decodes \/ playerName = ""
             THEN [lb EXCEPT !.n = @ + 1, !.got = <<>>, !.last = "400"]
             ELSE [lb EXCEPT !.n = @ + 1,
                             !.req[h] = [pc |-> "Begin", playerName |-> playerName,
                                         score |-> score]]
    /\ UNCHANGED <<sessVars, regVars, thr, gf, mem>>

\* l.mutex.Lock(); tx, err := l.db.Begin().
AddScore_Begin(h, ok) ==
    /\ lb.req[h].pc = "Begin"
    /\ lb.mutex = "unlocked"
    /\ lb' = IF ok
             THEN [lb EXCEPT !.mutex = h, !.req[h].pc = "Ping",
                             !.tx = [open |-> TRUE, rows |-> lb.rows, seq |-> lb.seq]]
             ELSE AddScore_return_err(h)
    /\ UNCHANGED <<sessVars, regVars, thr, gf, mem>>

\* l.db.Ping().
AddScore_Ping(h, ok) ==
    /\ lb.req[h].pc = "Ping"
    /\ lb' = IF ok THEN [lb EXCEPT !.req[h].pc = "Insert"]
             ELSE AddScore_return_err(h)
    /\ UNCHANGED <<sessVars, regVars, thr, gf, mem>>

\* tx.Exec("INSERT INTO scores ..."), the date time.Now() formatted: the model's
\* clock is the number of rows inserted so far.
AddScore_Insert(h, ok) ==
    /\ lb.req[h].pc = "Insert"
    /\ lb' = IF ok
             THEN [lb EXCEPT !.req[h].pc = "Delete",
                             !.tx = AddScore_insert(lb.tx, lb.req[h].playerName,
                                                    lb.req[h].score, lb.tx.seq + 1)]
             ELSE AddScore_return_err(h)
    /\ UNCHANGED <<sessVars, regVars, thr, gf, mem>>

\* tx.Exec("DELETE FROM scores WHERE id NOT IN (... LIMIT ?)", MAX_ENTRIES).
AddScore_Delete(h, ok) ==
    /\ lb.req[h].pc = "Delete"
    /\ IF ok
       THEN \E t \in AddScore_trim(lb.tx, MaxEntries) :
               lb' = [lb EXCEPT !.req[h].pc = "Commit", !.tx = t]
       ELSE lb' = AddScore_return_err(h)
    /\ UNCHANGED <<sessVars, regVars, thr, gf, mem>>

\* A Commit step of an AddScore that ran its INSERT on l.db, outside the
\* transaction: a failed commit leaves the inserted row in the table.
AddScore_Commit_InsertOutsideTx(h, ok) ==
    /\ lb.req[h].pc = "Commit"
    /\ lb' = IF ok
             THEN [lb EXCEPT !.rows = lb.tx.rows, !.seq = lb.tx.seq, !.tx = NoTx,
                             !.mutex = "unlocked", !.req[h] = NoRequest,
                             !.got = <<>>, !.last = "201"]
             ELSE [AddScore_return_err(h) EXCEPT
                      !.rows = @ \cup {r \in lb.tx.rows : r.id = lb.tx.seq},
                      !.seq = lb.tx.seq]
    /\ UNCHANGED <<sessVars, regVars, thr, gf, mem>>

\* tx.Commit(): the table becomes what the transaction holds; AddScore returns nil
\* and the handler answers 201.  A failed commit returns err.
AddScore_Commit(h, ok) ==
    /\ lb.req[h].pc = "Commit"
    /\ lb' = IF ok
             THEN [lb EXCEPT !.rows = lb.tx.rows, !.seq = lb.tx.seq, !.tx = NoTx,
                             !.mutex = "unlocked", !.req[h] = NoRequest,
                             !.discarded = @ \cup
                                {r.score : r \in (lb.rows \cup lb.tx.rows) \ lb.tx.rows},
                             !.got = <<>>, !.last = "201"]
             ELSE AddScore_return_err(h)
    /\ UNCHANGED <<sessVars, regVars, thr, gf, mem>>

\* The GET handler: l.GetScores() under l.mutex.RLock(); a failed Ping or query
\* returns the empty list.
Get(ok, parses) ==
    /\ lb.mutex = "unlocked"
    /\ \E scores \in (IF ok THEN GetScores(lb.rows, MaxEntries, parses, lb.seq + 1)
                      ELSE {<<>>}) :
          lb' = [lb EXCEPT !.got = scores, !.last = "get"]
    /\ UNCHANGED <<sessVars, regVars, thr, gf, mem>>

ScoresNext ==
    \/ \E h \in Handlers : \E playerName \in PlayerNames : \E score \in ScoreInputs :
          \E decodes \in BOOLEAN : Post(h, playerName, score, decodes)
    \/ \E h \in Handlers : \E ok \in BOOLEAN : AddScore_Begin(h, ok)
    \/ \E h \in Handlers : \E ok \in BOOLEAN : AddScore_Ping(h, ok)
    \/ \E h \in Handlers : \E ok \in BOOLEAN : AddScore_Insert(h, ok)
    \/ \E h \in Handlers : \E ok \in BOOLEAN : AddScore_Delete(h, ok)
    \/ \E h \in Handlers : \E ok \in BOOLEAN : AddScore_Commit(h, ok)
    \/ \E ok \in BOOLEAN : \E parses \in BOOLEAN : Get(ok, parses)

SpecScores == ScoresInit /\ [][ScoresNext]_vars

---------------------------------------------------------------------------
(* GetState of package game and the memory of the snake slices: the session's
   g.state.Snake and the Snake of a returned GameState are slice headers over
   backing arrays *)

\* The cell a caller writes into the snake of the state it was given.
WrittenCells == {Point(0, 0)}

\* The arrays a slice header of the session or of the returned state points to.
Referenced(g, snap) == {g.arr} \cup (IF snap.taken THEN {snap.Snake.arr} ELSE {})

\* The array a new allocation gets: one that no live slice header points to.
Alloc(m) == CHOOSE a \in ArrayIds : a \notin Referenced(m.g, m.snap)

\* The memory without the arrays no slice header points to any more.
Collect(arr, g, snap) ==
    [a \in ArrayIds |-> IF a \in Referenced(g, snap) THEN arr[a] ELSE <<>>]

\* The GameState value a caller of GetState holds, its Snake read through memory.
SnapValue(m) ==
    [Snake |-> View(m.arr, m.snap.Snake), Food |-> m.snap.Food,
     Direction |-> m.snap.Direction, Score |-> m.snap.Score,
     GameOver |-> m.snap.GameOver]

\* NewGame in the middle of the grid: the snake is the slice literal of one cell.
SnapInit ==
    /\ impl = "game"
    /\ config = MainConfig
    /\ state \in {s \in NewGame(config) : s.Food \in RegFood}
    /\ mutex = "unlocked"
    /\ last = [op |-> "create", arg |-> ""]
    /\ lastMove = "NONE"
    /\ RegIdle
    /\ thr = NoThreads
    /\ gf = "idle"
    /\ lb = NoBoard
    /\ mem = [NoMem EXCEPT !.arr["a1"] = state.Snake, !.g = Slice("a1", 1)]

\* g.GetState(): under RLock, return g.state: the struct is copied, field by
\* field, and the copy of the field Snake is the slice header.  One returned
\* state is followed.
Snap_GetState ==
    /\ mutex = "unlocked"
    /\ ~mem.snap.taken
    /\ LET snap == [taken |-> TRUE, Snake |-> mem.g, Food |-> state.Food,
                    Direction |-> state.Direction, Score |-> state.Score,
                    GameOver |-> state.GameOver]
       IN  mem' = [mem EXCEPT !.snap = snap, !.arr = Collect(mem.arr, mem.g, snap)]
    /\ last' = [op |-> "GetState", arg |-> ""]
    /\ UNCHANGED <<impl, config, state, mutex, lastMove, regVars, thr, gf, lb>>

\* g.Update(): where the snake moves, append([]models.Point{newHead},
\* g.state.Snake...) builds the new snake in a new array, and the reslice that
\* drops the tail keeps that array.
Snap_Update ==
    /\ mutex = "unlocked"
    /\ LET next  == Game_Update(state)
           moves == Outcome(state, next) \in {"food", "move"}
           a     == Alloc(mem)
           g     == IF moves THEN Slice(a, Len(next.Snake)) ELSE mem.g
           arr   == IF moves
                    THEN [mem.arr EXCEPT ![a] = <<Game_newHead(state.Snake[1],
                                                               state.Direction)>>
                                                \o state.Snake]
                    ELSE mem.arr
       IN  /\ Len(next.Snake) <= MaxLen
           /\ mem' = [mem EXCEPT !.g = g, !.arr = Collect(arr, g, mem.snap)]
           /\ state' = [next EXCEPT !.Snake = View(arr, g)]
    /\ mutex' = IF Game_UpdateBlocks(state) THEN "deadlock" ELSE "unlocked"
    /\ last' = [op |-> "tick", arg |-> Outcome(state, state')]
    /\ UNCHANGED <<impl, config, lastMove, regVars, thr, gf, lb>>

\* g.SetDirection(dir): it assigns g.state.Direction and no cell.
Snap_SetDirection(dir) ==
    /\ mutex = "unlocked"
    /\ state' = Game_SetDirection(state, dir)
    /\ last' = [op |-> "direction", arg |-> ""]
    /\ UNCHANGED <<impl, config, mutex, lastMove, regVars, thr, gf, lb, mem>>

\* g.Reset(): g.state is assigned a new struct whose Snake is a new slice
\* literal; then the call blocks in g.generateFood().
Snap_Reset ==
    /\ mutex = "unlocked"
    /\ LET a   == Alloc(mem)
           g   == Slice(a, 1)
           arr == [mem.arr EXCEPT ![a] = Game_Reset(config).Snake]
       IN  /\ mem' = [mem EXCEPT !.g = g, !.arr = Collect(arr, g, mem.snap)]
           /\ state' = [Game_Reset(config) EXCEPT !.Snake = View(arr, g)]
    /\ mutex' = "deadlock"
    /\ last' = [op |-> "reset", arg |-> ""]
    /\ UNCHANGED <<impl, config, lastMove, regVars, thr, gf, lb>>

\* The caller of GetState assigns to a cell of the snake of the state it holds:
\* state.Snake[i] = p writes the backing array the header points to.
Snap_WriteCell(i, p) ==
    /\ mem.snap.taken
    /\ mem.writes < MaxWrites
    /\ i \in 1..mem.snap.Snake.len
    /\ LET arr == [mem.arr EXCEPT ![mem.snap.Snake.arr][i] = p]
       IN  /\ mem' = [mem EXCEPT !.arr = arr, !.writes = @ + 1]
           /\ state' = [state EXCEPT !.Snake = View(arr, mem.g)]
    /\ last' = [op |-> "snapshot_write", arg |-> ""]
    /\ UNCHANGED <<impl, config, mutex, lastMove, regVars, thr, gf, lb>>

\* The caller of GetState assigns to a field of the state it holds that is not a
\* slice: state.Score = state.Score + 1 writes its own copy.
Snap_WriteField ==
    /\ mem.snap.taken
    /\ mem.writes < MaxWrites
    /\ mem' = [mem EXCEPT !.snap.Score = @ + 1, !.writes = @ + 1]
    /\ last' = [op |-> "snapshot_write", arg |-> ""]
    /\ UNCHANGED <<impl, config, state, mutex, lastMove, regVars, thr, gf, lb>>

SnapNext ==
    \/ Snap_GetState
    \/ Snap_Update
    \/ \E dir \in Directions : Snap_SetDirection(dir)
    \/ Snap_Reset
    \/ \E i \in 1..MaxLen : \E p \in WrittenCells : Snap_WriteCell(i, p)
    \/ Snap_WriteField

SpecSnap == SnapInit /\ [][SnapNext]_vars

---------------------------------------------------------------------------
(* A session that receives no direction input: only the ticker acts on it.
   ticks counts the ticks so far. *)

IdleInit == Init

\* A tick of a package game session, as Update, counted.
Idle_Update ==
    /\ impl = "game"
    /\ mutex = "unlocked"
    /\ ticks <= config.GridSize
    /\ Len(Game_Update(state).Snake) <= MaxLen
    /\ state' = Game_Update(state)
    /\ mutex' = IF Game_UpdateBlocks(state) THEN "deadlock" ELSE "unlocked"
    /\ last' = [op |-> "tick", arg |-> Outcome(state, state')]
    /\ lastMove' = IF Moved(state, state') THEN state.Direction ELSE lastMove
    /\ ticks' = ticks + 1
    /\ UNCHANGED <<impl, config, hver, clients, closes, hmutex, run, conns, broken,
                   rlast, lb, mem, thr, gf>>

\* A tick of a package main session, as main_update, counted.
Idle_main_update ==
    /\ impl = "main"
    /\ mutex = "unlocked"
    /\ ticks <= config.GridSize
    /\ \E food \in generateFood :
          /\ Len(update(state, food).Snake) <= MaxLen
          /\ state' = update(state, food)
    /\ last' = [op |-> "tick", arg |-> Outcome(state, state')]
    /\ lastMove' = IF Moved(state, state') THEN state.Direction ELSE lastMove
    /\ ticks' = ticks + 1
    /\ UNCHANGED <<impl, config, mutex, hver, clients, closes, hmutex, run, conns,
                   broken, rlast, lb, mem, thr, gf>>

IdleNext == Idle_Update \/ Idle_main_update

SpecIdle == IdleInit /\ [][IdleNext]_vars

---------------------------------------------------------------------------
(* Vocabulary of the properties *)

TypeOK ==
    /\ impl \in {"game", "main"}
    /\ config \in GameConfigs
    /\ mutex \in {"unlocked", "deadlock"}
    /\ state.Score \in Nat
    /\ state.GameOver \in BOOLEAN
    /\ state.Direction \in DirInputs
    /\ Len(state.Snake) \in 1..MaxLen

\* The exact opposite of a direction.
Opposite(d) ==
    CASE d = UP -> DOWN [] d = DOWN -> UP [] d = LEFT -> RIGHT [] d = RIGHT -> LEFT
      [] OTHER -> "NONE"

\* p shifted one cell along d.
Shift(p, d) ==
    CASE d = UP    -> Point(p.X, p.Y - 1)
      [] d = DOWN  -> Point(p.X, p.Y + 1)
      [] d = LEFT  -> Point(p.X - 1, p.Y)
      [] d = RIGHT -> Point(p.X + 1, p.Y)

InBounds(p) == p.X >= 0 /\ p.X < GridSize /\ p.Y >= 0 /\ p.Y < GridSize

OnSnake(p, Snake) == \E i \in 1..Len(Snake) : Snake[i] = p


---------------------------------------------------------------------------
(* Properties *)

HeadCell(s) == s.Snake[1]

\* A tick ran on a session that was not terminal and whose committed direction is
\* one of the four: Target is the cell the head is shifted to.
LiveTick == last'.op = "tick" /\ ~state.GameOver /\ state.Direction \in Directions

Target == Shift(HeadCell(state), state.Direction)

\* C1: on a non-terminal session whose committed direction c is one of the four, a
\* request for a direction d of the four leaves c committed when d is the exact
\* opposite of c, and commits d for every other d; no other field changes.
C1_OppositeRejectedElseCommitted ==
    [][\A d \in Directions :
          (/\ last'.op = "direction" /\ last'.arg = d
           /\ ~state.GameOver
           /\ state.Direction \in Directions)
          => state' = [state EXCEPT !.Direction =
                          IF d = Opposite(state.Direction) THEN state.Direction ELSE d]
      ]_vars

\* A request for the opposite of the committed direction has just been rejected.
C1_Witness ==
    /\ last.op = "direction"
    /\ last.arg \in Directions
    /\ ~state.GameOver
    /\ last.arg = Opposite(state.Direction)

\* C2: the direction a tick uses is never the opposite of the direction of the
\* previous tick's movement.
C2_NoReversalBetweenTicks ==
    [][(last'.op = "tick" /\ ~state.GameOver /\ lastMove \in Directions)
          => state.Direction # Opposite(lastMove)]_vars

\* C3: a tick whose new head is outside the grid makes the session terminal and
\* leaves snake, score and food (and direction) as they were.
C3_WallCollisionTerminal ==
    [][(LiveTick /\ ~InBounds(Target))
          => state' = [state EXCEPT !.GameOver = TRUE]]_vars

\* A tick has just ended a session against a wall.
C3_Witness ==
    /\ last.op = "tick" /\ last.arg = "collision"
    /\ state.Direction \in Directions
    /\ ~InBounds(Shift(HeadCell(state), state.Direction))

\* C4: a tick whose new head is the food and no collision adds 1 to the score and
\* makes the snake the new head followed by the whole snake of before the tick.
C4_FoodGrowsSnake ==
    [][(LiveTick /\ Target = state.Food /\ InBounds(Target)
                 /\ ~OnSnake(Target, state.Snake))
          => /\ state'.Score = state.Score + 1
             /\ state'.Snake = <<Target>> \o state.Snake
             /\ Len(state'.Snake) = Len(state.Snake) + 1
             /\ ~state'.GameOver
             /\ state'.Direction = state.Direction]_vars

\* A tick of a package main session has just eaten the food.
C4_Witness ==
    /\ impl = "main"
    /\ last.op = "tick" /\ last.arg = "food"
    /\ Len(state.Snake) >= 2 /\ state.Score >= 1

\* C5: in every reachable state the food is not on a cell of the snake.
C5_FoodOffSnake == ~OnSnake(state.Food, state.Snake)

C7_SnakeNonEmptyNoDuplicates ==
    /\ Len(state.Snake) >= 1
    /\ \A i, j \in 1..Len(state.Snake) : i # j => state.Snake[i] # state.Snake[j]

\* A tick has just refused to move the head onto a cell of a snake of three or
\* more cells.
C7_Witness ==
    /\ last.op = "tick" /\ last.arg = "collision"
    /\ Len(state.Snake) >= 3
    /\ state.Direction \in Directions
    /\ OnSnake(Shift(HeadCell(state), state.Direction), state.Snake)

\* C8: a tick of a terminal session changes nothing, and a terminal session stays
\* terminal under every call but Reset.
C8_TerminalAbsorbing ==
    /\ [][(last'.op = "tick" /\ state.GameOver) => state' = state]_vars
    /\ [][(state.GameOver /\ last'.op # "reset") => state'.GameOver]_vars

\* A tick has just run on a terminal session.
C8_Witness ==
    /\ last.op = "tick" /\ last.arg = "terminal"
    /\ state.GameOver

\* C9: a direction request on a terminal session changes no field of the state.
C9_SetDirectionNoOpWhenTerminal ==
    [][(last'.op = "direction" /\ state.GameOver) => state' = state]_vars

\* C10: a direction input that is none of the four changes no field of the state,
\* and the committed direction is always one of the four.
C10_MalformedDirectionIgnored ==
    /\ [][(last'.op = "direction" /\ last'.arg \notin Directions)
             => state' = state]_vars
    /\ [](state.Direction \in Directions)

\* C11: after Reset the session is in a creation-time state: the snake is the one
\* configured starting cell, direction RIGHT, score 0, not terminal, the food on a
\* cell off the snake, and the call has returned (the mutex is free).
C11_ResetRestoresCreationState ==
    last.op = "reset" => (state \in NewGame(config) /\ mutex = "unlocked")

\* C12: a newly created session has a snake of exactly the configured initial cell,
\* direction RIGHT, score 0 and is not terminal.
C12_CreationState ==
    last.op = "create"
        => /\ state.Snake = <<Point(config.InitialX, config.InitialY)>>
           /\ state.Direction = RIGHT
           /\ state.Score = 0
           /\ ~state.GameOver

\* A package game session has just been created on a cell off the diagonal.
C12_Witness ==
    /\ last.op = "create"
    /\ impl = "game"
    /\ config.InitialX # config.InitialY
    /\ Len(state.Snake) = 1

\* C13: in one tick of the registry a push that failed for one connection does not
\* keep the other connections of that tick from being advanced and pushed: while
\* connections other than the failed one are still to be visited, the range of
\* updateGames can take its next turn.
C13_FailedPushDoesNotStopTick ==
    (run.pc = "send_unregister" /\ run.todo \ {run.conn} # {})
        => ENABLED (\E c \in run.todo \ {run.conn} : updateGames_iter(c))

\* C14: a connection whose push failed is eventually unregistered: once a push to
\* it has failed in updateGames, the loop of Run gets to process its
\* unregistration and the connection leaves the map.
C14_FailedPushEventuallyUnregistered ==
    \A c \in Conns :
        (run.pc = "send_unregister" /\ run.conn = c) ~> (c \notin DOMAIN clients)

\* C15: unregistering is idempotent.  On every registry the program reaches and
\* for every connection, handleUnregister applied twice leaves what one
\* application leaves; on a connection that is not in the map it changes nothing;
\* it removes no other session and closes no other connection; and no connection
\* is ever closed twice.
C15_UnregisterIdempotent ==
    \A c \in Conns :
        LET R    == [clients |-> clients, closes |-> closes]
            once == handleUnregister(R, c)
        IN  /\ handleUnregister(once, c) = once
            /\ c \notin DOMAIN clients => once = R
            /\ \A d \in (DOMAIN clients) \ {c} :
                  /\ d \in DOMAIN once.clients
                  /\ once.clients[d] = clients[d]
                  /\ once.closes[d] = closes[d]
            /\ closes[c] <= 1

\* handleUnregister has removed and closed one connection, another is registered.
C15_Witness ==
    \E c, d \in Conns :
        /\ c # d
        /\ closes[c] = 1
        /\ c \notin DOMAIN clients
        /\ d \in DOMAIN clients

\* C16: a direction input for a connection that is not registered is a no-op and
\* not an error: when HandleDirection returns for a connection that has no entry
\* in the map, no session has changed and the value returned is nil.
C16_UnregisteredDirectionNoOpNoError ==
    [][\A c \in Conns :
          (conns[c] = "HandleDirection" /\ conns'[c] = "read" /\ c \notin DOMAIN clients)
              => (clients' = clients /\ rlast' = "nil")]_vars

\* C17: a mutation of the map never runs at the same time as the iteration of
\* updateGames or a lookup of HandleDirection: while handleRegister or
\* handleUnregister is past its Lock, Run is not in the range of updateGames and
\* no read loop is inside HandleDirection past its RLock.
C17_MapMutationExclusive ==
    run.pc \in {"handleRegister_locked", "handleUnregister_locked"}
        => /\ run.pc \notin {"range", "send_unregister", "Update_blocked"}
           /\ \A c \in Conns : conns[c] \notin {"HandleDirection", "SetDirection_blocked"}

\* handleRegister is past its Lock while the read loop of a registered, live
\* connection is running.
C17_Witness ==
    /\ run.pc = "handleRegister_locked"
    /\ \E c \in DOMAIN clients : conns[c] = "read" /\ ~ConnFails(c)

\* The orders in which a range can visit the keys S of the map.
Orders(S) ==
    {o \in [1..Cardinality(S) -> S] : \A i, j \in 1..Cardinality(S) : o[i] = o[j] => i = j}

\* C20: the sessions are independent.  Whenever a tick can start: a turn of
\* updateGames on one connection (tick, collision, failed push) and a direction
\* input for one connection leave the sessions of the other connections as they
\* were, and the sessions that updateGames leaves do not depend on the order in
\* which its range visited them.
C20_SessionsIndependent ==
    run.pc \in {"select", "updateGames"}
        => LET failing == {c \in Conns : ConnFails(c)}
           IN  /\ \A c \in DOMAIN clients : \A d \in (DOMAIN clients) \ {c} :
                     /\ updateGames_visit(clients, c, c \in failing).clients[d] = clients[d]
                     /\ \A msg \in Msgs :
                           HandleDirection(hver, clients, c, msg).clients[d] = clients[d]
               /\ \A o1, o2 \in Orders(DOMAIN clients) :
                     updateGames(clients, o1, failing) = updateGames(clients, o2, failing)

\* C18: the game state is thread-safe.  Once the goroutine of Game.start runs, a
\* goroutine that is at a read or a write of the session's state holds the
\* session's mutex.
C18_StateAccessUnderMutex ==
    thr.tick # "off"
        => /\ thr.tick = "update" => mutex = "tick"
           /\ thr.loop \in {"handleDirection", "read_GameOver", "read_Score"}
                 => mutex = "loop"

\* C19: food placement never hangs.  When generateFood was called with the snake
\* on every cell of the grid, it has returned and the session is terminal.
C19_FoodPlacementTerminates ==
    (gf # "idle" /\ \A c \in CellsOf(config.GridSize) : OnSnake(c, state.Snake))
        => (gf = "returned" /\ state.GameOver)

ProbePoints == {Point(x, y) : x \in (0 - 1)..GridSize, y \in (0 - 1)..GridSize}

\* C29: for every point and every snake the session holds, checkCollision and
\* isCollision are true exactly when the point is out of bounds or on a cell of
\* the snake.
C29_CollisionIffOutOfBoundsOrOnSnake ==
    \A p \in ProbePoints :
        LET expected == ~InBounds(p) \/ OnSnake(p, state.Snake)
        IN  /\ checkCollision(p, state.Snake) = expected
            /\ isCollision(p, state.Snake) = expected

\* A tick of a package game session found its new head out of bounds.
C29_Witness ==
    /\ impl = "game"
    /\ last.op = "tick"
    /\ last.arg = "collision"
    /\ state.Direction \in Directions
    /\ ~InBounds(Shift(HeadCell(state), state.Direction))
    /\ \E p \in ProbePoints : InBounds(p) /\ ~checkCollision(p, state.Snake)

\* C27: direction requests between two ticks are coalesced, not queued.  In the
\* registry a HandleDirection moves no snake; a snake changes only in a turn of
\* updateGames on its connection, and then its head goes exactly one cell along
\* the direction committed at that moment, the cells behind it are the cells of
\* before (all of them, or all but the tail), and the direction stays committed.
C27_DirectionRequestsCoalesced ==
    [][\A c \in (DOMAIN clients) \cap (DOMAIN clients') :
          LET s == clients[c].state
              t == clients'[c].state
          IN  /\ conns'[c] # conns[c] => t.Snake = s.Snake
              /\ t.Snake # s.Snake
                    => /\ run.pc = "range" /\ c \in run.todo
                       /\ s.Direction \in Directions
                       /\ HeadCell(t) = Shift(HeadCell(s), s.Direction)
                       /\ Tail(t.Snake) \in {s.Snake, SubSeq(s.Snake, 1, Len(s.Snake) - 1)}
                       /\ t.Direction = s.Direction]_vars

\* The one tick of the registry so far moved a session to the left of its
\* initial cell: the requests UP and then LEFT were both accepted before the
\* tick, and only LEFT moved the snake.
C27_Witness ==
    /\ ticks = 1
    /\ \E c \in DOMAIN clients :
          /\ clients[c].state.Snake = <<Point(INITIAL_SNAKE_X - 1, INITIAL_SNAKE_Y)>>
          /\ clients[c].state.Direction = LEFT
          /\ ~clients[c].state.GameOver

\* C28: a terminal session stays registered and every later tick of the registry
\* still pushes its final state while its connection works: when the range of a
\* tick has stopped on some connection, no terminal session whose connection
\* works is left unvisited by that tick.
C28_TerminalSessionStillPushed ==
    run.pc \in {"send_unregister", "Update_blocked"}
        => \A c \in run.todo \ {run.conn} :
              ~(clients[c].state.GameOver /\ ~ConnFails(c))

\* C21: after the read loop of a connection has ended, its unregistration is
\* eventually processed: the session leaves the map, and so no later tick
\* advances it or pushes its state.
C21_ClosedConnectionDiscarded ==
    \A c \in Conns : (conns[c] = "send_unregister") ~> (c \notin DOMAIN clients)

C23_GetScoresReturnsStoreRecords ==
    lb.last = "get" =>
        /\ Len(lb.got) <= MaxEntries
        /\ \A i \in 1..(Len(lb.got) - 1) : lb.got[i].Score >= lb.got[i + 1].Score
        /\ \A i \in 1..Len(lb.got) :
              \E r \in lb.rows : /\ r.player_name = lb.got[i].PlayerName
                                 /\ r.score = lb.got[i].Score
                                 /\ r.date = lb.got[i].Date

\* C24: every row of the table has a non-empty player name and a non-negative
\* score.
C24_RecordsHaveNameAndNonNegativeScore ==
    \A r \in lb.rows : r.player_name # "" /\ r.score >= 0

\* C30: the table changes only when the transaction of an AddScore commits, and
\* then to the table with the new row inserted and trimmed to MaxEntries; a call
\* that returns an error leaves the table and its id sequence as they were.
C30_AddScoreAtomic ==
    [][/\ (lb'.rows # lb.rows \/ lb'.seq # lb.seq) =>
             \E h \in Handlers :
                /\ lb.req[h].pc = "Commit"
                /\ lb'.last = "201"
                /\ lb'.seq = lb.seq + 1
                /\ \E t \in AddScore_trim(
                               AddScore_insert(
                                   [open |-> TRUE, rows |-> lb.rows, seq |-> lb.seq],
                                   lb.req[h].playerName, lb.req[h].score, lb.seq + 1),
                               MaxEntries) :
                      lb'.rows = t.rows
       /\ (\E h \in Handlers : lb.mutex = h /\ lb'.mutex = "unlocked"
                                            /\ lb'.last = "500") =>
             (lb'.rows = lb.rows /\ lb'.seq = lb.seq)]_vars

\* An AddScore on a full table is about to commit or to fail: its transaction
\* has inserted the new row and deleted a row of the table, and the table still
\* holds what it held before the call.
C30_Witness ==
    /\ lb.tx.open
    /\ \E h \in Handlers : lb.req[h].pc = "Commit"
    /\ Cardinality(lb.rows) = MaxEntries
    /\ lb.rows \ lb.tx.rows # {}
    /\ lb.tx.rows \ lb.rows # {}
    /\ ENABLED (\E h \in Handlers : AddScore_Commit(h, FALSE))

\* C25: the state GetState returned does not alias the session: no Update,
\* SetDirection or Reset of the session changes the value the caller holds, and
\* no write of the caller into that value, the cells of its snake included,
\* changes the state of the session.
C25_SnapshotDoesNotAlias ==
    [][/\ (mem.snap.taken /\ last'.op \in {"tick", "direction", "reset"})
             => SnapValue(mem') = SnapValue(mem)
       /\ last'.op = "snapshot_write" => state' = state]_vars

\* C31: every Update and every Reset of a package game session returns and
\* releases the session mutex, the tick on which the head reaches the food
\* included: after a tick or a reset the mutex is free.
C31_UpdateAndResetReturn ==
    (impl = "game" /\ last.op \in {"tick", "reset"}) => mutex = "unlocked"

\* C36: registration happens before input: while HandleDirection looks up a
\* connection that is open (its client is there, the handler has not closed it),
\* the connection has its session in the map.
C36_RegisteredBeforeInput ==
    \A c \in Conns :
        (conns[c] = "HandleDirection" /\ c \notin broken /\ closes[c] = 0)
            => c \in DOMAIN clients


\* C32: the score is the length of the snake minus 1; a tick leaves the score or
\* adds 1 to it, and a direction request leaves it.
C32_ScoreIsLengthMinusOne ==
    [][/\ state.Score = Len(state.Snake) - 1
       /\ state'.Score = Len(state'.Snake) - 1
       /\ last'.op = "tick" => state'.Score \in {state.Score, state.Score + 1}
       /\ last'.op = "direction" => state'.Score = state.Score]_vars

\* A tick ate the second meal: score 2, three cells.
C32_Witness ==
    /\ last.op = "tick"
    /\ last.arg = "food"
    /\ state.Score = 2
    /\ Len(state.Snake) = 3

\* C33: every cell of the snake and the food cell lie inside the grid, in
\* terminal states as in the others.
C33_SnakeAndFoodInGrid ==
    /\ \A i \in 1..Len(state.Snake) : InBounds(state.Snake[i])
    /\ InBounds(state.Food)

\* A tick ran a snake of two cells or more into a wall: the session is
\* terminal, the head on the edge of the grid and facing out of it.
C33_Witness ==
    /\ last.op = "tick"
    /\ last.arg = "collision"
    /\ state.GameOver
    /\ Len(state.Snake) >= 2
    /\ state.Direction \in Directions
    /\ ~InBounds(Shift(HeadCell(state), state.Direction))

\* C34: the snake is contiguous: consecutive cells differ by 1 on one axis and
\* by 0 on the other.
C34_SnakeContiguous ==
    \A i \in 1..(Len(state.Snake) - 1) :
        \E d \in Directions : state.Snake[i] = Shift(state.Snake[i + 1], d)

\* A tick moved a snake of four cells that has a bend.
C34_Witness ==
    /\ last.op = "tick"
    /\ last.arg = "move"
    /\ Len(state.Snake) = 4
    /\ \E i \in 1..3 : state.Snake[i].X # state.Snake[i + 1].X
    /\ \E i \in 1..3 : state.Snake[i].Y # state.Snake[i + 1].Y


\* C35: a session that receives no direction input moves right one cell per
\* tick, becomes terminal on tick number GridSize - InitialX and not before, and
\* no tick before that blocks, a tick that eats included.
C35_IdleSessionEnds ==
    /\ mutex = "unlocked"
    /\ state.GameOver <=> ticks >= config.GridSize - config.InitialX
    /\ ~state.GameOver => HeadCell(state).X = config.InitialX + ticks
    /\ state.GameOver => HeadCell(state).X = config.GridSize - 1

=============================================================================
